---- MODULE Spec2Model ----
(***************************************************************************)
(* A model of the gendure resilience toolkit.                              *)
(*                                                                         *)
(* Part 1: circuitBreaker[T] (circuit_breaker.go).  Every atomic access of *)
(* the breaker's fields (state, failureCount, lastFailureTime,             *)
(* halfOpenLock) is one step of a caller, so that concurrent Execute and   *)
(* Reset calls interleave between any two of them, as goroutines do.       *)
(* Time is a global clock in whole units that only a Tick advances.        *)
(***************************************************************************)
EXTENDS Integers, FiniteSets, Sequences, TLC

\* ---------------------------------------------------------------- bounds
NumCallers == 2
MaxCalls == 3
MaxResets == 1
MaxTime == 3
MaxThreshold == 2
MaxTimeout == 1
\* The callers of the burst of TestCircuitBreakerRaceCondition.
NumBurst == 3
\* Calls made in the longer run of Execute calls alone, and the largest
\* failureCount in the run without end.
MaxLongCalls == 4
MaxCount == 2

\* Retry: concurrent Execute calls on one instance, calls made in all, and the
\* largest constructor arguments and GenerateJitter argument tried.
NumRetriers == 2
MaxExecutes == 2
MaxInitialDelay == 1
MaxMaxRetries == 5
MaxMultiplier == 3
MaxRandomInt == 2
MaxJitterArg == 4

Callers == 1..NumCallers
BurstCallers == 1..NumBurst
Retriers == 1..NumRetriers

\* ------------------------------------------------------------- constants
Closed == 0
Open == 1
HalfOpen == 2

\* lastFailureTime is an atomic.Value: nothing stored yet (Load() returns nil
\* and the type assertion fails), or a time.Time.  time.Time{} is the zero
\* time, which lies further in the past than any Duration can express.
Unset == -2
ZeroTime == -1
\* time.Since saturates at the largest Duration.
MaxDuration == 1000

DefaultFailureThreshold == 1
DefaultRecoveryTimeout == 30

VARIABLES
    failureThreshold,   \* cb.failureThreshold
    recoveryTimeout,    \* cb.recoveryTimeout
    state,              \* cb.state
    failureCount,       \* cb.failureCount
    lastFailureTime,    \* cb.lastFailureTime
    halfOpenLock,       \* cb.halfOpenLock
    now,                \* the wall clock
    call,               \* what each caller is calling: "none", "Execute", "Reset"
    pc,                 \* where each caller is in that call
    loaded,             \* Execute's local lastFailureTime (line 179)
    trial,              \* the call won the halfOpenLock (and deferred its release)
    cancelled,          \* the call's ctx was done when Execute was entered
    elapsedAt,          \* the call's recovery check: "none", "unset", "lt", "eq", "gt"
    enteredIn,          \* the state the call's first state.Load() returned
    window,             \* lastFailureTime at entry, if Open and not yet recovered
    opErr,              \* what operation returned: "none", "nil", "errOperation"
    currentFailures,    \* handleFailure's local: what failureCount.Add(1) returned
    opInv,              \* how often the call invoked operation
    fbInv,              \* how often the call invoked fallback
    result,             \* what the call returned: [val, err]
    quiet,              \* no other caller has taken a step since the call began
    stamped,            \* the time the call's handleFailure stored, or Unset
    clean,              \* so far no operation has failed and no ctx was cancelled
    calls,              \* Execute calls made so far
    resets              \* Reset calls made so far

\* ExponentialBackoffRetry: one instance, and the Execute calls made on it.
VARIABLES
    ebr,                \* the instance: initialDelay, maxRetries, multiplier, randomInt
    rpc,                \* where each caller is in retry Execute or GenerateJitter
    attempt,            \* Execute's local attempt
    ctxDone,            \* the call's ctx is cancelled or expired
    cancelledIn,        \* where the call was when its ctx was cancelled, or "none"
    callsAtCancel,      \* how often callback had been invoked by then
    callCount,          \* how often the call has invoked callback
    waits,              \* how many timers the call has started
    outcome,            \* what the last callback invocation returned: "none", "nil", "err"
    delay,              \* Execute's local delay
    jitter,             \* Execute's local jitter
    totalDelay,         \* Execute's local totalDelay
    timerFired,         \* the timer of the current wait has fired
    randomInt,          \* GenerateJitter's parameter randomInt, in a direct call
    randomByte,         \* GenerateJitter's local randomByte, in a direct call
    ret,                \* what the call returned: <<value, error>>
    executes            \* retry Execute calls made so far

\* The retry instance and everything recorded of its calls.
retry == <<ebr, rpc, attempt, ctxDone, cancelledIn, callsAtCancel, callCount, waits,
           outcome, delay, jitter, totalDelay, timerFired, randomInt, randomByte, ret,
           executes>>

vars == <<retry, failureThreshold, recoveryTimeout, state, failureCount, lastFailureTime,
          halfOpenLock, now, call, pc, loaded, trial, cancelled, elapsedAt, enteredIn,
          window, opErr, currentFailures, opInv, fbInv, result, quiet, stamped, clean, calls, resets>>

config == <<failureThreshold, recoveryTimeout>>
shared == <<state, failureCount, lastFailureTime, halfOpenLock>>

NoResult == [val |-> "none", err |-> "nil"]
FallbackErrs == {"nil", "errFallback"}

\* NewCircuitBreaker: the defaults of a non-positive argument.
NewCircuitBreaker(ft, rt) ==
    [failureThreshold |-> IF ft <= 0 THEN DefaultFailureThreshold ELSE ft,
     recoveryTimeout  |-> IF rt <= 0 THEN DefaultRecoveryTimeout ELSE rt,
     state            |-> Closed,
     failureCount     |-> 0,
     lastFailureTime  |-> Unset,
     halfOpenLock     |-> FALSE]

\* ---------------------------------------- ExponentialBackoffRetry, at rest

\* Durations are counted in milliseconds.
Millisecond == 1
Second == 1000

DefaultInitialDelay == 100
DefaultMaxRetries == 3
DefaultMultiplier == 2
DefaultRandomInt == 1

\* NewExponentialBackoffRetry: the defaults of a non-positive argument.
NewExponentialBackoffRetry(d, m, k, n) ==
    [initialDelay |-> IF d <= 0 THEN DefaultInitialDelay * Millisecond ELSE d,
     maxRetries   |-> IF m <= 0 THEN DefaultMaxRetries ELSE m,
     multiplier   |-> IF k <= 0 THEN DefaultMultiplier ELSE k,
     randomInt    |-> IF n <= 0 THEN DefaultRandomInt ELSE n]

\* What Execute has returned: the zero value or the result of invocation `of`,
\* and nil, the error of invocation `of`, or ctx.Err().
NoReturn == [val |-> "none", err |-> "nil", of |-> 0]

\* No call on the retry instance is in flight and none has been made.
RetryIdle ==
    /\ rpc = [r \in Retriers |-> "idle"]
    /\ attempt = [r \in Retriers |-> 0]
    /\ ctxDone = [r \in Retriers |-> FALSE]
    /\ cancelledIn = [r \in Retriers |-> "none"]
    /\ callsAtCancel = [r \in Retriers |-> 0]
    /\ callCount = [r \in Retriers |-> 0]
    /\ waits = [r \in Retriers |-> 0]
    /\ outcome = [r \in Retriers |-> "none"]
    /\ delay = [r \in Retriers |-> 0]
    /\ jitter = [r \in Retriers |-> 0]
    /\ totalDelay = [r \in Retriers |-> 0]
    /\ timerFired = [r \in Retriers |-> FALSE]
    /\ randomInt = [r \in Retriers |-> 0]
    /\ randomByte = [r \in Retriers |-> 0]
    /\ ret = [r \in Retriers |-> NoReturn]
    /\ executes = 0

\* The breaker's program makes no retry instance of its own: one with the defaults.
RetryUnused == ebr = NewExponentialBackoffRetry(0, 0, 0, 0) /\ RetryIdle

\* -------------------------------------------------- circuitBreaker, at rest

InitWith(S, ft, rt) ==
    /\ LET cb == NewCircuitBreaker(ft, rt) IN
           /\ failureThreshold = cb.failureThreshold
           /\ recoveryTimeout = cb.recoveryTimeout
           /\ state = cb.state
           /\ failureCount = cb.failureCount
           /\ lastFailureTime = cb.lastFailureTime
           /\ halfOpenLock = cb.halfOpenLock
    /\ now = 0
    /\ call = [c \in S |-> "none"]
    /\ pc = [c \in S |-> "idle"]
    /\ loaded = [c \in S |-> Unset]
    /\ trial = [c \in S |-> FALSE]
    /\ cancelled = [c \in S |-> FALSE]
    /\ elapsedAt = [c \in S |-> "none"]
    /\ enteredIn = [c \in S |-> Closed]
    /\ window = [c \in S |-> Unset]
    /\ opErr = [c \in S |-> "none"]
    /\ currentFailures = [c \in S |-> 0]
    /\ opInv = [c \in S |-> 0]
    /\ fbInv = [c \in S |-> 0]
    /\ result = [c \in S |-> NoResult]
    /\ quiet = [c \in S |-> FALSE]
    /\ stamped = [c \in S |-> Unset]
    /\ clean = TRUE
    /\ calls = 0
    /\ resets = 0

InitFor(S) ==
    /\ \E ft \in 0..MaxThreshold, rt \in 0..MaxTimeout : InitWith(S, ft, rt)
    /\ RetryUnused

Init == InitFor(Callers)

\* time.Since(t) for a loaded time.Time.
Since(t) == IF t = ZeroTime THEN MaxDuration ELSE now - t

\* A step of caller c: c stays quiet as it was, every other caller is disturbed.
Disturb(c) == quiet' = [x \in DOMAIN quiet |-> IF x = c THEN quiet[c] ELSE FALSE]
Begin(c) == quiet' = [x \in DOMAIN quiet |-> x = c]

\* ------------------------------------------------------- circuitBreaker

\* Line 181: ok && time.Since(lastFailureTime) > cb.recoveryTimeout.
RecoveryElapsedGe(t) == t # Unset /\ Since(t) >= recoveryTimeout
RecoveryElapsedNever(t) == FALSE
RecoveryElapsed(t) == t # Unset /\ Since(t) > recoveryTimeout

\* Line 190: halfOpenLock.CompareAndSwap(false, true) succeeds.
GateFreeAlways == TRUE
GateFree == ~halfOpenLock

\* Line 189: cb.state.Load() == HalfOpen sends the call to the gate.
GateNeededClosed(st) == st = Closed
GateNeeded(st) == st = HalfOpen

\* Line 222, left operand: currentFailures >= cb.failureThreshold.
ThresholdReachedGt(cur) == cur > failureThreshold
ThresholdReachedEarly(cur) == cur >= failureThreshold - 1
ThresholdReached(cur) == cur >= failureThreshold

\* Line 222, right operand: cb.state.Load() == HalfOpen.
TrialFailedNever(st) == FALSE
TrialFailed(st) == st = HalfOpen

\* Line 282: the count Reset stores.
ResetCountKept == failureCount
ResetCount == 0

\* Line 283: the state Reset stores.
ResetStateKept == state
ResetStateHalfOpen == HalfOpen
ResetState == Closed

\* How the recovery check of line 181 came out, for the record.
Compared(t) ==
    IF t = Unset THEN "unset"
    ELSE IF Since(t) < recoveryTimeout THEN "lt"
    ELSE IF Since(t) = recoveryTimeout THEN "eq"
    ELSE "gt"

\* The breaker is Open on a failure recorded no more than recoveryTimeout ago.
InWindow(st) ==
    /\ st = Open
    /\ lastFailureTime \notin {Unset, ZeroTime}
    /\ now - lastFailureTime <= recoveryTimeout

\* What is recorded of each call, beside call, pc and quiet.
record == <<loaded, trial, cancelled, elapsedAt, enteredIn, window, opErr, currentFailures, stamped,
            opInv, fbInv, result>>
counters == <<clean, calls, resets>>

\* A call begins: what the previous call of this caller left is forgotten.
Fresh(c, kind, done, st) ==
    /\ call' = [call EXCEPT ![c] = kind]
    /\ loaded' = [loaded EXCEPT ![c] = Unset]
    /\ trial' = [trial EXCEPT ![c] = FALSE]
    /\ cancelled' = [cancelled EXCEPT ![c] = done]
    /\ elapsedAt' = [elapsedAt EXCEPT ![c] = "none"]
    /\ enteredIn' = [enteredIn EXCEPT ![c] = st]
    /\ window' = [window EXCEPT ![c] = IF kind = "Execute" /\ InWindow(st)
                                       THEN lastFailureTime ELSE Unset]
    /\ opErr' = [opErr EXCEPT ![c] = "none"]
    /\ currentFailures' = [currentFailures EXCEPT ![c] = 0]
    /\ stamped' = [stamped EXCEPT ![c] = Unset]
    /\ opInv' = [opInv EXCEPT ![c] = 0]
    /\ Begin(c)

\* A call is over: its locals and what is recorded of it are dropped.
Forget(c) ==
    /\ call' = [call EXCEPT ![c] = "none"]
    /\ loaded' = [loaded EXCEPT ![c] = Unset]
    /\ trial' = [trial EXCEPT ![c] = FALSE]
    /\ cancelled' = [cancelled EXCEPT ![c] = FALSE]
    /\ elapsedAt' = [elapsedAt EXCEPT ![c] = "none"]
    /\ enteredIn' = [enteredIn EXCEPT ![c] = Closed]
    /\ window' = [window EXCEPT ![c] = Unset]
    /\ opErr' = [opErr EXCEPT ![c] = "none"]
    /\ currentFailures' = [currentFailures EXCEPT ![c] = 0]
    /\ stamped' = [stamped EXCEPT ![c] = Unset]
    /\ opInv' = [opInv EXCEPT ![c] = 0]
    /\ fbInv' = [fbInv EXCEPT ![c] = 0]
    /\ result' = [result EXCEPT ![c] = NoResult]
    /\ quiet' = [x \in DOMAIN quiet |-> FALSE]

\* return fallback(): Execute returns the operation's error instead.
ReturnOperationError(c) ==
    /\ result' = [result EXCEPT ![c] = [val |-> "zero", err |-> "errOperation"]]
    /\ fbInv' = fbInv
    /\ pc' = [pc EXCEPT ![c] = "ret"]

\* return fallback(): fallback runs on the calling goroutine and Execute returns
\* what it returned.
ReturnFallback(c) ==
    /\ \E e \in FallbackErrs :
         result' = [result EXCEPT ![c] = [val |-> "fallback", err |-> e]]
    /\ fbInv' = [fbInv EXCEPT ![c] = @ + 1]
    /\ pc' = [pc EXCEPT ![c] = "ret"]

\* result, err := operation() is entered.
CallOperation(c) ==
    /\ opInv' = [opInv EXCEPT ![c] = @ + 1]
    /\ pc' = [pc EXCEPT ![c] = "inOp"]

\* Lines 176-178: default: the first cb.state.Load().
Admit(c) ==
    /\ pc[c] = "idle"
    /\ Fresh(c, "Execute", FALSE, state)
    /\ fbInv' = [fbInv EXCEPT ![c] = 0]
    /\ result' = [result EXCEPT ![c] = NoResult]
    /\ pc' = [pc EXCEPT ![c] = IF state = Open THEN "loadLast" ELSE "checkHalfOpen"]
    /\ UNCHANGED <<retry, config, shared, now, clean, resets>>

\* Execute is called with a live ctx.
ExecuteEnter(c) ==
    /\ calls < MaxCalls
    /\ calls' = calls + 1
    /\ Admit(c)

\* Lines 173-175 with the ctx ignored: the call goes on as if it were live.
ExecuteCancelledIgnored(c) ==
    /\ pc[c] = "idle"
    /\ calls < MaxCalls
    /\ calls' = calls + 1
    /\ Fresh(c, "Execute", TRUE, state)
    /\ fbInv' = [fbInv EXCEPT ![c] = 0]
    /\ result' = [result EXCEPT ![c] = NoResult]
    /\ pc' = [pc EXCEPT ![c] = IF state = Open THEN "loadLast" ELSE "checkHalfOpen"]
    /\ clean' = FALSE
    /\ UNCHANGED <<retry, config, shared, now, resets>>

\* Lines 173-175: case <-ctx.Done(): return fallback().
ExecuteCancelled(c) ==
    /\ pc[c] = "idle"
    /\ calls < MaxCalls
    /\ calls' = calls + 1
    /\ Fresh(c, "Execute", TRUE, state)
    /\ \E e \in FallbackErrs :
         result' = [result EXCEPT ![c] = [val |-> "fallback", err |-> e]]
    /\ fbInv' = [fbInv EXCEPT ![c] = 1]
    /\ pc' = [pc EXCEPT ![c] = "ret"]
    /\ clean' = FALSE
    /\ UNCHANGED <<retry, config, shared, now, resets>>

\* Line 179: cb.lastFailureTime.Load().
LoadLastFailure(c) ==
    /\ pc[c] = "loadLast"
    /\ loaded' = [loaded EXCEPT ![c] = lastFailureTime]
    /\ pc' = [pc EXCEPT ![c] = "since"]
    /\ Disturb(c)
    /\ UNCHANGED <<retry, config, shared, now, counters, call, trial, cancelled, elapsedAt,
                   enteredIn, window, opErr, currentFailures, stamped, opInv, fbInv, result>>

\* Lines 181-186: the recovery check, with the clock read by time.Since.
CheckRecovery(c) ==
    /\ pc[c] = "since"
    /\ elapsedAt' = [elapsedAt EXCEPT ![c] = Compared(loaded[c])]
    /\ IF RecoveryElapsed(loaded[c])
         THEN /\ pc' = [pc EXCEPT ![c] = "storeHalfOpen"]
              /\ UNCHANGED <<fbInv, result>>
         ELSE ReturnFallback(c)
    /\ Disturb(c)
    /\ UNCHANGED <<retry, config, shared, now, counters, call, loaded, trial, cancelled,
                   enteredIn, window, opErr, currentFailures, stamped, opInv>>

\* Line 182: cb.state.Store(HalfOpen).
StoreHalfOpen(c) ==
    /\ pc[c] = "storeHalfOpen"
    /\ state' = HalfOpen
    /\ pc' = [pc EXCEPT ![c] = "checkHalfOpen"]
    /\ Disturb(c)
    /\ UNCHANGED <<retry, config, failureCount, lastFailureTime, halfOpenLock, now, counters,
                   call, record>>

\* Line 189: the second cb.state.Load(); not HalfOpen: line 198, operation().
CheckHalfOpen(c) ==
    /\ pc[c] = "checkHalfOpen"
    /\ IF GateNeeded(state)
         THEN /\ pc' = [pc EXCEPT ![c] = "cas"]
              /\ UNCHANGED opInv
         ELSE CallOperation(c)
    /\ Disturb(c)
    /\ UNCHANGED <<retry, config, shared, now, counters, call, loaded, trial, cancelled,
                   elapsedAt, enteredIn, window, opErr, currentFailures, stamped, fbInv, result>>

\* Lines 190-194: halfOpenLock.CompareAndSwap(false, true) and the deferred release.
AcquireTrial(c) ==
    /\ pc[c] = "cas"
    /\ IF GateFree
         THEN /\ halfOpenLock' = TRUE
              /\ trial' = [trial EXCEPT ![c] = TRUE]
              /\ CallOperation(c)
              /\ UNCHANGED <<fbInv, result>>
         ELSE /\ ReturnFallback(c)
              /\ UNCHANGED <<halfOpenLock, trial, opInv>>
    /\ Disturb(c)
    /\ UNCHANGED <<retry, config, state, failureCount, lastFailureTime, now, counters, call,
                   loaded, cancelled, elapsedAt, enteredIn, window, opErr,
                   currentFailures, stamped>>

\* Lines 199-200, 219-222: operation returned an error; handleFailure adds one to
\* failureCount and, below the threshold, goes on to load the state.
OperationFails(c) ==
    /\ pc[c] = "inOp"
    /\ opErr' = [opErr EXCEPT ![c] = "errOperation"]
    /\ failureCount' = failureCount + 1
    /\ currentFailures' = [currentFailures EXCEPT ![c] = failureCount + 1]
    /\ pc' = [pc EXCEPT ![c] = IF ThresholdReached(failureCount + 1)
                                 THEN "storeOpen" ELSE "loadState"]
    /\ clean' = FALSE
    /\ Disturb(c)
    /\ UNCHANGED <<retry, config, state, lastFailureTime, halfOpenLock, now, calls, resets,
                   call, loaded, trial, cancelled, elapsedAt, enteredIn, window,
                   stamped, opInv, fbInv, result>>

\* Line 222, right operand, then line 201 when the circuit is not opened.
HandleFailureLoadState(c) ==
    /\ pc[c] = "loadState"
    /\ IF TrialFailed(state)
         THEN /\ pc' = [pc EXCEPT ![c] = "storeOpen"]
              /\ UNCHANGED <<fbInv, result>>
         ELSE ReturnFallback(c)
    /\ Disturb(c)
    /\ UNCHANGED <<retry, config, shared, now, counters, call, loaded, trial, cancelled,
                   elapsedAt, enteredIn, window, opErr, currentFailures, stamped, opInv>>

\* Line 232: cb.state.Store(Open), with failureCount set back to 0 as well.
HandleFailureStoreOpenReset(c) ==
    /\ pc[c] = "storeOpen"
    /\ state' = Open
    /\ failureCount' = 0
    /\ pc' = [pc EXCEPT ![c] = "storeTime"]
    /\ Disturb(c)
    /\ UNCHANGED <<retry, config, lastFailureTime, halfOpenLock, now, counters,
                   call, record>>

\* Line 232: cb.state.Store(Open).
HandleFailureStoreOpen(c) ==
    /\ pc[c] = "storeOpen"
    /\ state' = Open
    /\ pc' = [pc EXCEPT ![c] = "storeTime"]
    /\ Disturb(c)
    /\ UNCHANGED <<retry, config, failureCount, lastFailureTime, halfOpenLock, now, counters,
                   call, record>>

\* Line 233: cb.lastFailureTime.Store(time.Now()); then line 201.
HandleFailureStoreTime(c) ==
    /\ pc[c] = "storeTime"
    /\ lastFailureTime' = now
    /\ stamped' = [stamped EXCEPT ![c] = now]
    /\ ReturnFallback(c)
    /\ Disturb(c)
    /\ UNCHANGED <<retry, config, state, failureCount, halfOpenLock, now, counters, call,
                   loaded, trial, cancelled, elapsedAt, enteredIn, window, opErr,
                   currentFailures, opInv>>

\* Lines 205, 282: operation returned no error; Reset stores failureCount 0.
OperationSucceeds(c) ==
    /\ pc[c] = "inOp"
    /\ opErr' = [opErr EXCEPT ![c] = "nil"]
    /\ failureCount' = ResetCount
    /\ pc' = [pc EXCEPT ![c] = "resetState"]
    /\ Disturb(c)
    /\ UNCHANGED <<retry, config, state, lastFailureTime, halfOpenLock, now, counters, call,
                   loaded, trial, cancelled, elapsedAt, enteredIn, window,
                   currentFailures, stamped, opInv, fbInv, result>>

\* Line 282 of a Reset() called by the user.
ResetEnter(c) ==
    /\ pc[c] = "idle"
    /\ resets < MaxResets
    /\ resets' = resets + 1
    /\ Fresh(c, "Reset", FALSE, state)
    /\ fbInv' = [fbInv EXCEPT ![c] = 0]
    /\ result' = [result EXCEPT ![c] = NoResult]
    /\ failureCount' = ResetCount
    /\ pc' = [pc EXCEPT ![c] = "resetState"]
    /\ UNCHANGED <<retry, config, state, lastFailureTime, halfOpenLock, now, clean, calls>>

\* Line 283: cb.state.Store(Closed).
ResetStoreState(c) ==
    /\ pc[c] = "resetState"
    /\ state' = ResetState
    /\ pc' = [pc EXCEPT ![c] = "resetTime"]
    /\ Disturb(c)
    /\ UNCHANGED <<retry, config, failureCount, lastFailureTime, halfOpenLock, now, counters,
                   call, record>>

\* Line 284: cb.lastFailureTime.Store(time.Time{}), and Reset returns; inside
\* Execute, line 206 then returns the operation's result and nil.
ResetStoreTime(c) ==
    /\ pc[c] = "resetTime"
    /\ lastFailureTime' = ZeroTime
    /\ result' = [result EXCEPT ![c] = IF call[c] = "Execute"
                                         THEN [val |-> "operation", err |-> "nil"]
                                         ELSE NoResult]
    /\ pc' = [pc EXCEPT ![c] = "ret"]
    /\ Disturb(c)
    /\ UNCHANGED <<retry, config, state, failureCount, halfOpenLock, now, counters, call,
                   loaded, trial, cancelled, elapsedAt, enteredIn, window, opErr,
                   currentFailures, stamped, opInv, fbInv>>

\* Line 194: the call deferred cb.halfOpenLock.Store(false), whatever comes after.
ReleasesGateOnSuccess(c) == trial[c] /\ opErr[c] = "nil"
ReleasesGate(c) == trial[c]

\* The call returns to its caller: for an Execute that won the halfOpenLock the
\* deferred cb.halfOpenLock.Store(false) of line 194 runs; the call's locals are gone.
Return(c) ==
    /\ pc[c] = "ret"
    /\ halfOpenLock' = IF ReleasesGate(c) THEN FALSE ELSE halfOpenLock
    /\ pc' = [pc EXCEPT ![c] = "idle"]
    /\ Forget(c)
    /\ UNCHANGED <<retry, config, state, failureCount, lastFailureTime, now, counters>>

\* Reset, lines 281-285: its three stores.
Reset(c) == ResetEnter(c) \/ ResetStoreState(c) \/ ResetStoreTime(c)

\* handleFailure, lines 218-235, after its failureCount.Add(1).
handleFailure(c) ==
    HandleFailureLoadState(c) \/ HandleFailureStoreOpen(c) \/ HandleFailureStoreTime(c)

\* Execute, lines 168-208.
Execute(c) ==
    \/ ExecuteCancelled(c)
    \/ ExecuteEnter(c)
    \/ LoadLastFailure(c)
    \/ CheckRecovery(c)
    \/ StoreHalfOpen(c)
    \/ CheckHalfOpen(c)
    \/ AcquireTrial(c)
    \/ OperationFails(c)
    \/ OperationSucceeds(c)
    \/ handleFailure(c)
    \/ Return(c)

\* The accessors, lines 248-250 and 263-265.
GetState == state
GetCountFailure == failureCount

\* The clock advances, and a background timer moves an Open breaker whose
\* recoveryTimeout has elapsed to HalfOpen.
TickRecovers ==
    /\ now < MaxTime
    /\ now' = now + 1
    /\ state' = IF state = Open /\ lastFailureTime >= 0
                    /\ now + 1 - lastFailureTime > recoveryTimeout
                 THEN HalfOpen ELSE state
    /\ UNCHANGED <<retry, config, failureCount, lastFailureTime, halfOpenLock, counters,
                   call, pc, record, quiet>>

\* The clock advances.
Tick ==
    /\ now < MaxTime
    /\ now' = now + 1
    /\ UNCHANGED <<retry, config, shared, counters, call, pc, record, quiet>>

Next ==
    \/ \E c \in Callers : Execute(c)
    \/ \E c \in Callers : Reset(c)
    \/ Tick

Spec == Init /\ [][Next]_vars

\* TestCircuitBreakerRaceCondition: on a fresh breaker NumBurst goroutines each call
\* Execute once with a live ctx, and every operation fails.  The callers are told
\* apart by the order in which they enter.
BurstEnter(c) == c = calls + 1 /\ ExecuteEnter(c)

InitBurst == InitFor(BurstCallers)

NextBurst ==
    \/ \E c \in BurstCallers :
          \/ BurstEnter(c)
          \/ LoadLastFailure(c)
          \/ CheckRecovery(c)
          \/ StoreHalfOpen(c)
          \/ CheckHalfOpen(c)
          \/ AcquireTrial(c)
          \/ OperationFails(c)
          \/ handleFailure(c)
          \/ Return(c)
    \/ Tick

SpecBurst == InitBurst /\ [][NextBurst]_vars

\* ------------------------------------------------------------ type check
TypeOK ==
    /\ state \in {Closed, Open, HalfOpen}
    /\ failureCount \in 0..MaxCalls
    /\ lastFailureTime \in {Unset, ZeroTime} \cup 0..MaxTime
    /\ halfOpenLock \in BOOLEAN
    /\ now \in 0..MaxTime

\* ---------------------------------------------------------------- claims

\* An Execute call has done its work and is about to return to its caller.
Returning(c) == pc[c] = "ret" /\ call[c] = "Execute"

\* No other call is in flight, and none has taken a step since c's call began.
Alone(c) == quiet[c] /\ \A d \in DOMAIN pc \ {c} : pc[d] = "idle"

\* The call passed the recovery check or found the breaker not Open, and still
\* did not invoke operation: it found the halfOpenLock taken.
LostGate(c) ==
    /\ Returning(c)
    /\ ~cancelled[c]
    /\ elapsedAt[c] \in {"none", "gt"}
    /\ opInv[c] = 0

\* C1, as claimed: under any interleaving of Execute and Reset calls, at most one
\* caller is inside operation() at any moment at which state == HalfOpen.
C1_OneInOperationWhileHalfOpen ==
    state = HalfOpen => Cardinality({c \in DOMAIN pc : pc[c] = "inOp"}) <= 1

\* C1, amended: at most one caller at a time has been admitted through the HalfOpen
\* gate (holds halfOpenLock), so at most one trial is inside operation(); a caller
\* that finds the gate taken returns fallback's result without invoking operation.
C1_OneTrialAtATime ==
    /\ Cardinality({c \in DOMAIN pc : trial[c]}) <= 1
    /\ \A c \in DOMAIN pc : trial[c] => halfOpenLock
    /\ \A c \in DOMAIN pc :
         LostGate(c) => fbInv[c] = 1 /\ result[c].val = "fallback"

\* C1, witness: one caller is inside operation() as the trial while another, which
\* observed HalfOpen, has been turned away with fallback's result.
C1_Witness ==
    \E c, d \in DOMAIN pc :
        /\ c # d
        /\ trial[c] /\ pc[c] = "inOp" /\ state = HalfOpen
        /\ LostGate(d) /\ fbInv[d] = 1

\* C2, as claimed: after failureThreshold consecutive failures on a Closed breaker
\* the state is Open, and an Execute call that starts with the breaker Open on a
\* failure recorded less than recoveryTimeout ago, and is over before that time has
\* elapsed, invokes only fallback; in every interleaving of Execute calls (no
\* Reset() is called by the user).
C2_OpenBlocksAnyInterleaving ==
    \A c \in DOMAIN pc :
        Returning(c) /\ resets = 0 =>
          /\ (currentFailures[c] >= failureThreshold /\ enteredIn[c] = Closed
                => state = Open)
          /\ (window[c] # Unset /\ now - window[c] <= recoveryTimeout
                => opInv[c] = 0 /\ fbInv[c] = 1)

\* C2, amended: the same for a call during which no other caller takes a step.
C2_OpenBlocksUndisturbed ==
    \A c \in DOMAIN pc :
        Returning(c) /\ quiet[c] =>
          /\ (currentFailures[c] >= failureThreshold /\ enteredIn[c] = Closed
                => state = Open /\ lastFailureTime = stamped[c] /\ stamped[c] >= 0)
          /\ (window[c] # Unset /\ now - window[c] <= recoveryTimeout
                => opInv[c] = 0 /\ fbInv[c] = 1)

\* C2, witness: the breaker was opened by reaching the threshold, and a later call
\* made before recoveryTimeout has elapsed got fallback only.
C2_Witness ==
    \E c \in DOMAIN pc :
        /\ Returning(c) /\ quiet[c] /\ ~cancelled[c]
        /\ failureCount >= failureThreshold /\ state = Open
        /\ elapsedAt[c] \in {"lt", "eq"}
        /\ window[c] # Unset /\ now - window[c] <= recoveryTimeout
        /\ opInv[c] = 0 /\ fbInv[c] = 1

\* C3, as claimed: a live call on an Open breaker with no other call in flight:
\* elapsed >= recoveryTimeout (equality included) makes it the HalfOpen trial,
\* elapsed < recoveryTimeout gives fallback and leaves the state Open.
C3_RecoveryAtOrAfterTimeout ==
    \A c \in DOMAIN pc :
        Alone(c) /\ call[c] = "Execute" /\ ~cancelled[c] /\ enteredIn[c] = Open =>
          /\ (elapsedAt[c] \in {"eq", "gt"} /\ pc[c] \in {"inOp", "ret"}
                => trial[c] /\ opInv[c] = 1)
          /\ (elapsedAt[c] \in {"eq", "gt"} /\ pc[c] = "inOp" => state = HalfOpen)
          /\ (elapsedAt[c] = "lt"
                => pc[c] = "ret" /\ opInv[c] = 0 /\ fbInv[c] = 1 /\ state = Open)

\* C3, amended: the transition needs elapsed > recoveryTimeout; at elapsed equal to
\* recoveryTimeout, as below it, the call returns fallback and the state stays Open.
C3_RecoveryAfterTimeout ==
    \A c \in DOMAIN pc :
        Alone(c) /\ call[c] = "Execute" /\ ~cancelled[c] /\ enteredIn[c] = Open =>
          /\ (elapsedAt[c] = "gt" /\ pc[c] \in {"inOp", "ret"}
                => trial[c] /\ opInv[c] = 1)
          /\ (elapsedAt[c] = "gt" /\ pc[c] = "inOp" => state = HalfOpen)
          /\ (elapsedAt[c] \in {"lt", "eq"}
                => pc[c] = "ret" /\ opInv[c] = 0 /\ fbInv[c] = 1 /\ state = Open)

\* C3, witness: a call that found more than recoveryTimeout elapsed since a stored
\* failure time is inside operation() as the trial, the breaker HalfOpen.
C3_Witness ==
    \E c \in DOMAIN pc :
        /\ Alone(c) /\ enteredIn[c] = Open /\ elapsedAt[c] = "gt"
        /\ loaded[c] >= 0
        /\ pc[c] = "inOp" /\ trial[c] /\ state = HalfOpen

\* C4, as claimed: when the HalfOpen trial's operation succeeds, at the return of
\* that Execute the breaker is Closed, failureCount is 0, lastFailureTime is cleared,
\* and the call returns the operation's result with a nil error.
C4_TrialSuccessCloses ==
    \A c \in DOMAIN pc :
        Returning(c) /\ trial[c] /\ opErr[c] = "nil" =>
          /\ state = Closed /\ failureCount = 0 /\ lastFailureTime = ZeroTime
          /\ result[c] = [val |-> "operation", err |-> "nil"]

\* C4, amended: the call always returns the operation's result and nil; the breaker
\* is Closed, 0, cleared at its return when no other caller took a step meanwhile.
C4_TrialSuccessClosesUndisturbed ==
    \A c \in DOMAIN pc :
        Returning(c) /\ trial[c] /\ opErr[c] = "nil" =>
          /\ quiet[c] =>
               state = Closed /\ failureCount = 0 /\ lastFailureTime = ZeroTime
          /\ result[c] = [val |-> "operation", err |-> "nil"]

\* C4, witness: a trial that succeeded is returning, undisturbed.
C4_Witness ==
    \E c \in DOMAIN pc :
        /\ Returning(c) /\ trial[c] /\ opErr[c] = "nil" /\ quiet[c]
        /\ enteredIn[c] = Open /\ state = Closed

\* C5, as claimed: when the trial's operation fails, the breaker is Open again and
\* lastFailureTime is the time stamped for that failure (or for a later one),
\* whatever the count and the threshold, also with other callers or Reset running
\* concurrently.
C5_TrialFailureReopens ==
    \A c \in DOMAIN pc :
        Returning(c) /\ trial[c] /\ opErr[c] = "errOperation" =>
          state = Open /\ stamped[c] >= 0 /\ lastFailureTime >= stamped[c]

\* C5, amended: the same, for a trial during which no other caller takes a step.
C5_TrialFailureReopensUndisturbed ==
    \A c \in DOMAIN pc :
        Returning(c) /\ trial[c] /\ opErr[c] = "errOperation" /\ quiet[c] =>
          state = Open /\ stamped[c] >= 0 /\ lastFailureTime = stamped[c]

\* C5, witness: a trial failed with the count still below the threshold, and the
\* breaker is Open again.
C5_Witness ==
    \E c \in DOMAIN pc :
        /\ Returning(c) /\ trial[c] /\ opErr[c] = "errOperation" /\ quiet[c]
        /\ currentFailures[c] < failureThreshold
        /\ state = Open

\* C6: as long as every operation has succeeded and every ctx was live, fallback is
\* never invoked, every call returns its operation's result and nil, and the breaker
\* is Closed with failureCount 0.
C6_AllSucceed ==
    clean =>
      /\ state = Closed /\ failureCount = 0
      /\ \A c \in DOMAIN pc :
           /\ fbInv[c] = 0
           /\ Returning(c) => result[c] = [val |-> "operation", err |-> "nil"]

\* C6, witness: after nothing but successes one call returns its operation's result
\* while another is inside operation().
C6_Witness ==
    /\ clean
    /\ \E c, d \in DOMAIN pc :
         /\ Returning(c) /\ result[c].val = "operation"
         /\ pc[d] = "inOp"

\* C7: a call whose ctx is already done never invokes operation, invokes fallback
\* exactly once and returns what fallback returned, in every breaker state.
C7_CancelledFallback ==
    \A c \in DOMAIN pc :
        call[c] = "Execute" /\ cancelled[c] =>
          /\ pc[c] = "ret"
          /\ opInv[c] = 0 /\ fbInv[c] = 1
          /\ result[c].val = "fallback" /\ result[c].err \in FallbackErrs

\* C7, witness: a call with a done ctx that arrived at a HalfOpen breaker.
C7_Witness ==
    \E c \in DOMAIN pc :
        Returning(c) /\ cancelled[c] /\ enteredIn[c] = HalfOpen /\ fbInv[c] = 1

\* C8: when operation returns an error the failure is counted and Execute returns
\* fallback's result and error; the operation's error is never returned, and a
\* non-nil error of Execute is the one fallback returned.
C8_FailureReturnsFallback ==
    /\ [](\A c \in DOMAIN pc :
            Returning(c) =>
              /\ (opErr[c] = "errOperation" =>
                    fbInv[c] = 1 /\ result[c].val = "fallback"
                    /\ currentFailures[c] >= 1)
              /\ result[c].err # "errOperation"
              /\ (result[c].err # "nil" =>
                    fbInv[c] = 1 /\ result[c].val = "fallback"
                    /\ result[c].err = "errFallback"))
    /\ [][\A c \in DOMAIN pc :
            opErr[c] = "none" /\ opErr'[c] = "errOperation" =>
              failureCount' = failureCount + 1]_vars

\* C8, witness: an operation failed and Execute returns fallback's error.
C8_Witness ==
    \E c \in DOMAIN pc :
        Returning(c) /\ opErr[c] = "errOperation" /\ result[c].err = "errFallback"

\* C9, as claimed: when Reset returns the breaker is Closed, failureCount is 0 and
\* lastFailureTime is cleared, from whatever state Reset was called in.
C9_ResetCloses ==
    \A c \in DOMAIN pc :
        pc[c] = "ret" /\ call[c] = "Reset" =>
          state = Closed /\ failureCount = 0 /\ lastFailureTime = ZeroTime

\* C9, amended: the same, when no other caller takes a step while Reset runs.
C9_ResetClosesUndisturbed ==
    \A c \in DOMAIN pc :
        pc[c] = "ret" /\ call[c] = "Reset" /\ quiet[c] =>
          state = Closed /\ failureCount = 0 /\ lastFailureTime = ZeroTime

\* C9, witness: a Reset called on a HalfOpen breaker returns, undisturbed.
C9_Witness ==
    \E c \in DOMAIN pc :
        /\ pc[c] = "ret" /\ call[c] = "Reset" /\ quiet[c]
        /\ enteredIn[c] = HalfOpen /\ state = Closed

\* C10, as claimed: on a fresh breaker, once NumBurst > failureThreshold concurrent
\* Execute calls with failing operations have all returned, the state is Open.
C10_BurstEndsOpen ==
    (calls = NumBurst /\ \A c \in DOMAIN pc : pc[c] = "idle") => state = Open

\* Every call of the burst has been made and has returned.
BurstOver == calls = NumBurst /\ \A c \in DOMAIN pc : pc[c] = "idle"

breaker == <<config, shared, now, call, pc, record, quiet, counters>>

\* rand.Read fills one byte, or fails.
MaxByte == 255
ReadFailed == -1
RandomReads == 0..MaxByte \cup {ReadFailed}

\* GenerateJitter: randomByte is randomInt unless rand.Read succeeded, and the
\* jitter is randomByte % randomInt seconds.
GenerateJitterNoMod(n, read) == (IF read = ReadFailed THEN n ELSE read) * Second
GenerateJitter(n, read) ==
    LET rb == IF read = ReadFailed THEN n ELSE read
    IN  (rb % n) * Second

\* ebr.multiplier<<attempt.
Shl(x, a) == x * 2^a

\* delay := ebr.initialDelay * time.Duration(ebr.multiplier<<attempt).  Within the
\* bounds every product stays far below 2^63: no int64 wraps.
BaseDelay(a) == ebr.initialDelay * Shl(ebr.multiplier, a)

\* if attempt >= ebr.maxRetries-1.
ExhaustedLate(a) == a >= ebr.maxRetries
ExhaustedEarly(a) == a >= ebr.maxRetries - 2
Exhausted(a) == a >= ebr.maxRetries - 1

\* if err == nil.
SucceededNever(e) == FALSE
Succeeded(e) == e = "nil"

\* The loop's first select: case <-ctx.Done() is ready.
CtxIsDoneNever(r) == FALSE
CtxIsDone(r) == ctxDone[r]

\* The second select: case <-ctx.Done() is ready.
CtxWinsNever(r) == FALSE
CtxWins(r) == ctxDone[r]

\* return zero, ctx.Err().
ReturnCtxErr(r) ==
    /\ ret' = [ret EXCEPT ![r] = [val |-> "zero", err |-> "ctx", of |-> 0]]
    /\ rpc' = [rpc EXCEPT ![r] = "ret"]

\* Execute is called with a ctx that is live or already done: var attempt int.
RetryEnter(r) ==
    /\ rpc[r] = "idle"
    /\ executes < MaxExecutes
    /\ executes' = executes + 1
    /\ \E d \in BOOLEAN :
         /\ ctxDone' = [ctxDone EXCEPT ![r] = d]
         /\ cancelledIn' = [cancelledIn EXCEPT ![r] = IF d THEN "entry" ELSE "none"]
    /\ attempt' = [attempt EXCEPT ![r] = 0]
    /\ rpc' = [rpc EXCEPT ![r] = "top"]
    /\ UNCHANGED <<breaker, ebr, callsAtCancel, callCount, waits, outcome, delay, jitter,
                   totalDelay, timerFired, randomInt, randomByte, ret>>

\* The ctx of a call in flight is cancelled, or its deadline passes.
RetryCancel(r) ==
    /\ rpc[r] \in {"top", "callback", "wait"}
    /\ ~ctxDone[r]
    /\ ctxDone' = [ctxDone EXCEPT ![r] = TRUE]
    /\ cancelledIn' = [cancelledIn EXCEPT ![r] = rpc[r]]
    /\ callsAtCancel' = [callsAtCancel EXCEPT ![r] = callCount[r]]
    /\ UNCHANGED <<breaker, ebr, rpc, attempt, callCount, waits, outcome, delay, jitter,
                   totalDelay, timerFired, randomInt, randomByte, ret, executes>>

\* The top of the loop: ctx done, return zero, ctx.Err(); default: ebr.callback()
\* is invoked.
RetryCheckCtx(r) ==
    /\ rpc[r] = "top"
    /\ IF CtxIsDone(r)
         THEN /\ ReturnCtxErr(r)
              /\ UNCHANGED <<callCount, outcome>>
         ELSE /\ callCount' = [callCount EXCEPT ![r] = @ + 1]
              /\ outcome' = [outcome EXCEPT ![r] = "none"]
              /\ rpc' = [rpc EXCEPT ![r] = "callback"]
              /\ UNCHANGED ret
    /\ UNCHANGED <<breaker, ebr, attempt, ctxDone, cancelledIn, callsAtCancel, waits,
                   delay, jitter, totalDelay, timerFired, randomInt, randomByte, executes>>

\* ebr.callback() returns: nil, return result, nil; an error on the last allowed
\* attempt, return zero, err; otherwise delay, jitter and totalDelay are computed
\* and the timer is started.
RetryCallback(r) ==
    /\ rpc[r] = "callback"
    /\ \E e \in {"nil", "err"} :
         /\ outcome' = [outcome EXCEPT ![r] = e]
         /\ IF Succeeded(e)
              THEN /\ ret' = [ret EXCEPT ![r] =
                                [val |-> "result", err |-> "nil", of |-> callCount[r]]]
                   /\ rpc' = [rpc EXCEPT ![r] = "ret"]
                   /\ UNCHANGED <<waits, delay, jitter, totalDelay, timerFired>>
              ELSE IF Exhausted(attempt[r])
              THEN /\ ret' = [ret EXCEPT ![r] =
                                [val |-> "zero", err |-> "callback", of |-> callCount[r]]]
                   /\ rpc' = [rpc EXCEPT ![r] = "ret"]
                   /\ UNCHANGED <<waits, delay, jitter, totalDelay, timerFired>>
              ELSE \E j \in {GenerateJitter(ebr.randomInt, read) : read \in RandomReads} :
                   LET d == BaseDelay(attempt[r])
                   IN  /\ delay' = [delay EXCEPT ![r] = d]
                       /\ jitter' = [jitter EXCEPT ![r] = j]
                       /\ totalDelay' = [totalDelay EXCEPT ![r] = d + j]
                       /\ waits' = [waits EXCEPT ![r] = @ + 1]
                       /\ timerFired' = [timerFired EXCEPT ![r] = FALSE]
                       /\ rpc' = [rpc EXCEPT ![r] = "wait"]
                       /\ UNCHANGED ret
    /\ UNCHANGED <<breaker, ebr, attempt, ctxDone, cancelledIn, callsAtCancel, callCount,
                   randomInt, randomByte, executes>>

\* totalDelay has passed: the timer sends on timer.C.
RetryTimerFires(r) ==
    /\ rpc[r] = "wait"
    /\ ~timerFired[r]
    /\ timerFired' = [timerFired EXCEPT ![r] = TRUE]
    /\ UNCHANGED <<breaker, ebr, rpc, attempt, ctxDone, cancelledIn, callsAtCancel,
                   callCount, waits, outcome, delay, jitter, totalDelay, randomInt,
                   randomByte, ret, executes>>

\* The second select takes case <-ctx.Done(): return zero, ctx.Err().
RetryWaitCancelled(r) ==
    /\ rpc[r] = "wait"
    /\ CtxWins(r)
    /\ ReturnCtxErr(r)
    /\ UNCHANGED <<breaker, ebr, attempt, ctxDone, cancelledIn, callsAtCancel, callCount,
                   waits, outcome, delay, jitter, totalDelay, timerFired, randomInt,
                   randomByte, executes>>

\* The second select takes case <-timer.C, with attempt kept on the instance and
\* shared by its calls.
RetryWaitElapsedShared(r) ==
    /\ rpc[r] = "wait"
    /\ timerFired[r]
    /\ attempt' = [q \in Retriers |-> attempt[q] + 1]
    /\ rpc' = [rpc EXCEPT ![r] = "top"]
    /\ UNCHANGED <<breaker, ebr, ctxDone, cancelledIn, callsAtCancel, callCount, waits,
                   outcome, delay, jitter, totalDelay, timerFired, randomInt, randomByte,
                   ret, executes>>

\* The second select takes case <-timer.C, without attempt++.
RetryWaitElapsedStuck(r) ==
    /\ rpc[r] = "wait"
    /\ timerFired[r]
    /\ rpc' = [rpc EXCEPT ![r] = "top"]
    /\ UNCHANGED <<breaker, ebr, attempt, ctxDone, cancelledIn, callsAtCancel, callCount,
                   waits, outcome, delay, jitter, totalDelay, timerFired, randomInt,
                   randomByte, ret, executes>>

\* The second select takes case <-timer.C: attempt++ and the loop goes on.
RetryWaitElapsed(r) ==
    /\ rpc[r] = "wait"
    /\ timerFired[r]
    /\ attempt' = [attempt EXCEPT ![r] = @ + 1]
    /\ rpc' = [rpc EXCEPT ![r] = "top"]
    /\ UNCHANGED <<breaker, ebr, ctxDone, cancelledIn, callsAtCancel, callCount, waits,
                   outcome, delay, jitter, totalDelay, timerFired, randomInt, randomByte,
                   ret, executes>>

\* The call returns to its caller: its locals and what is recorded of it are dropped.
RetryReturn(r) ==
    /\ rpc[r] = "ret"
    /\ rpc' = [rpc EXCEPT ![r] = "idle"]
    /\ attempt' = [attempt EXCEPT ![r] = 0]
    /\ ctxDone' = [ctxDone EXCEPT ![r] = FALSE]
    /\ cancelledIn' = [cancelledIn EXCEPT ![r] = "none"]
    /\ callsAtCancel' = [callsAtCancel EXCEPT ![r] = 0]
    /\ callCount' = [callCount EXCEPT ![r] = 0]
    /\ waits' = [waits EXCEPT ![r] = 0]
    /\ outcome' = [outcome EXCEPT ![r] = "none"]
    /\ delay' = [delay EXCEPT ![r] = 0]
    /\ jitter' = [jitter EXCEPT ![r] = 0]
    /\ totalDelay' = [totalDelay EXCEPT ![r] = 0]
    /\ timerFired' = [timerFired EXCEPT ![r] = FALSE]
    /\ randomInt' = [randomInt EXCEPT ![r] = 0]
    /\ randomByte' = [randomByte EXCEPT ![r] = 0]
    /\ ret' = [ret EXCEPT ![r] = NoReturn]
    /\ UNCHANGED <<breaker, ebr, executes>>

\* ExponentialBackoffRetry.Execute.
RetryExecute(r) ==
    \/ RetryEnter(r)
    \/ RetryCheckCtx(r)
    \/ RetryCallback(r)
    \/ RetryWaitCancelled(r)
    \/ RetryWaitElapsed(r)
    \/ RetryReturn(r)

\* No breaker is made by the retry's program: one with the defaults, never called.
BreakerUnused == InitWith({}, 0, 0)

InitRetry ==
    /\ \E d \in 0..MaxInitialDelay, m \in 0..MaxMaxRetries,
          k \in 0..MaxMultiplier, n \in 0..MaxRandomInt :
         ebr = NewExponentialBackoffRetry(d, m, k, n)
    /\ RetryIdle
    /\ BreakerUnused

NextRetry ==
    \E r \in Retriers :
        \/ RetryExecute(r)
        \/ RetryCancel(r)
        \/ RetryTimerFires(r)

SpecRetry == InitRetry /\ [][NextRetry]_vars

\* GenerateJitter called directly, as TestGenerateJitterReturnsWithinExpectedRange
\* does: with a randomInt >= 1, and whatever rand.Read yields.
GenerateJitterCall(r) ==
    /\ rpc[r] = "idle"
    /\ \E n \in 1..MaxJitterArg, read \in RandomReads :
         /\ randomInt' = [randomInt EXCEPT ![r] = n]
         /\ randomByte' = [randomByte EXCEPT ![r] = IF read = ReadFailed THEN n ELSE read]
         /\ jitter' = [jitter EXCEPT ![r] = GenerateJitter(n, read)]
    /\ rpc' = [rpc EXCEPT ![r] = "jitter"]
    /\ UNCHANGED <<breaker, ebr, attempt, ctxDone, cancelledIn, callsAtCancel, callCount,
                   waits, outcome, delay, totalDelay, timerFired, ret, executes>>

\* return jitter.
GenerateJitterReturn(r) ==
    /\ rpc[r] = "jitter"
    /\ rpc' = [rpc EXCEPT ![r] = "idle"]
    /\ randomInt' = [randomInt EXCEPT ![r] = 0]
    /\ randomByte' = [randomByte EXCEPT ![r] = 0]
    /\ jitter' = [jitter EXCEPT ![r] = 0]
    /\ UNCHANGED <<breaker, ebr, attempt, ctxDone, cancelledIn, callsAtCancel, callCount,
                   waits, outcome, delay, totalDelay, timerFired, ret, executes>>

InitJitter == RetryUnused /\ BreakerUnused

NextJitter == GenerateJitterCall(1) \/ GenerateJitterReturn(1)

SpecJitter == InitJitter /\ [][NextJitter]_vars

\* ------------------------------------------------------- claims, retry

\* Retry Execute has decided what it returns and is about to return it.
RetryReturning(r) == rpc[r] = "ret"

\* initialDelay * multiplier^a, as documented.
DocumentedDelay(a) == ebr.initialDelay * ebr.multiplier^a

\* C12: a call whose callback failed every time and whose ctx was never cancelled
\* returns after exactly maxRetries invocations and maxRetries-1 waits, with the
\* zero value and the error of the last invocation.
C12_ExhaustionAfterMaxRetries ==
    \A r \in Retriers :
        RetryReturning(r) /\ ~ctxDone[r] /\ outcome[r] = "err" =>
          /\ callCount[r] = ebr.maxRetries
          /\ waits[r] = ebr.maxRetries - 1
          /\ ret[r] = [val |-> "zero", err |-> "callback", of |-> callCount[r]]

\* C12, witness: three failed invocations, two waits, and the call returns.
C12_Witness ==
    \E r \in Retriers :
        /\ RetryReturning(r) /\ ~ctxDone[r] /\ outcome[r] = "err"
        /\ callCount[r] = 3 /\ waits[r] = 2 /\ ret[r].err = "callback"

\* C13: when the callback succeeds on attempt k (after failing on attempts 0..k-1),
\* Execute has invoked it exactly k+1 times, returns that invocation's result with a
\* nil error, and has waited k times: once after each failure, not after the success.
C13_SuccessOnAttemptK ==
    \A r \in Retriers :
        outcome[r] = "nil" =>
          /\ RetryReturning(r)
          /\ attempt[r] < ebr.maxRetries
          /\ callCount[r] = attempt[r] + 1
          /\ waits[r] = attempt[r]
          /\ ret[r] = [val |-> "result", err |-> "nil", of |-> callCount[r]]

\* C13, witness: the callback succeeded on its third invocation.
C13_Witness ==
    \E r \in Retriers :
        /\ outcome[r] = "nil" /\ ~ctxDone[r] /\ attempt[r] = 2
        /\ RetryReturning(r) /\ callCount[r] = 3

\* C14: a call entered with a ctx already done never invokes callback, starts no
\* timer, and returns the zero value with ctx.Err().
C14_CancelledBeforeStart ==
    \A r \in Retriers :
        cancelledIn[r] = "entry" =>
          /\ callCount[r] = 0 /\ waits[r] = 0
          /\ rpc[r] \in {"top", "ret"}
          /\ RetryReturning(r) => ret[r] = [val |-> "zero", err |-> "ctx", of |-> 0]

\* C14, witness: such a call is returning.
C14_Witness ==
    \E r \in Retriers :
        cancelledIn[r] = "entry" /\ RetryReturning(r) /\ ret[r].err = "ctx"

\* C15: when ctx is cancelled during the wait after attempt i, callback is not
\* invoked again (the count stays i+1), the call can return at once, the timer
\* fired or not, and what it returns is the zero value with ctx.Err().
C15_CancelledWhileWaiting ==
    \A r \in Retriers :
        cancelledIn[r] = "wait" =>
          /\ callCount[r] = callsAtCancel[r]
          /\ rpc[r] \in {"wait", "top", "ret"}
          /\ rpc[r] = "wait" => ENABLED RetryWaitCancelled(r)
          /\ RetryReturning(r) => ret[r] = [val |-> "zero", err |-> "ctx", of |-> 0]

\* C15, witness: cancelled in the wait after the second attempt, the call returns
\* ctx.Err() though the timer has not fired.
C15_Witness ==
    \E r \in Retriers :
        /\ cancelledIn[r] = "wait" /\ callsAtCancel[r] = 2
        /\ RetryReturning(r) /\ ~timerFired[r] /\ ret[r].err = "ctx"

\* C16, as claimed: the base delay of the wait after attempt a is
\* initialDelay * multiplier^a.
C16_BaseDelayIsPower ==
    \A r \in Retriers :
        rpc[r] = "wait" => delay[r] = DocumentedDelay(attempt[r])

\* C17, as claimed: the total wait after attempt a is at least
\* initialDelay * multiplier^a.
C17_WaitAtLeastPower ==
    \A r \in Retriers :
        rpc[r] = "wait" => totalDelay[r] >= DocumentedDelay(attempt[r])

\* C18: for randomInt >= 1, whatever byte rand.Read yields and also when it fails,
\* GenerateJitter returns a whole number of seconds from 0 to randomInt-1.
C18_JitterInRange ==
    \A r \in Retriers :
        rpc[r] = "jitter" =>
          /\ randomInt[r] >= 1
          /\ jitter[r] \in {k * Second : k \in 0..(randomInt[r] - 1)}

\* C18, witness: GenerateJitter returns the largest value of the range.
C18_Witness ==
    \E r \in Retriers :
        /\ rpc[r] = "jitter" /\ randomInt[r] = 3
        /\ jitter[r] = 2 * Second

\* C19, as claimed: whenever ctx is done at the moment Execute returns an error,
\* the error is ctx.Err(), also when ctx was cancelled while the callback of the
\* last allowed attempt was running.
C19_CtxSupersedes ==
    \A r \in Retriers :
        RetryReturning(r) /\ ctxDone[r] /\ ret[r].err # "nil" => ret[r].err = "ctx"

\* The ctx was cancelled while the callback of the last allowed attempt was running.
CancelledInLastAttempt(r) ==
    cancelledIn[r] = "callback" /\ callsAtCancel[r] = ebr.maxRetries

\* C19, amended: the error is ctx.Err() when ctx was cancelled before the callback
\* of the last allowed attempt was invoked; cancelled while that callback runs, a
\* failing callback's own error is returned.
C19_CtxSupersedesAtCheckpoints ==
    \A r \in Retriers :
        RetryReturning(r) /\ ctxDone[r] /\ ret[r].err # "nil" =>
          IF CancelledInLastAttempt(r)
            THEN ret[r] = [val |-> "zero", err |-> "callback", of |-> ebr.maxRetries]
            ELSE ret[r] = [val |-> "zero", err |-> "ctx", of |-> 0]

\* C19, witness: ctx was cancelled while a callback that went on to fail was
\* running, not the last allowed one, and Execute returns ctx.Err().
C19_Witness ==
    \E r \in Retriers :
        /\ RetryReturning(r) /\ cancelledIn[r] = "callback" /\ outcome[r] = "err"
        /\ callsAtCancel[r] < ebr.maxRetries
        /\ ret[r].err = "ctx"

\* ------------------------------------------- claims, circuitBreaker again

\* The state machine's four transitions.
Transitions ==
    {<<Closed, Open>>, <<Open, HalfOpen>>, <<HalfOpen, Closed>>, <<HalfOpen, Open>>}

\* C20, as claimed: as long as Reset() has not been called, every change of the
\* state is one of the four transitions, in any interleaving of Execute calls: never
\* Open->Closed, never Closed->HalfOpen.
C20_OnlyFourTransitions ==
    [][resets = 0 /\ state' # state => <<state, state'>> \in Transitions]_vars

\* C20, amended: every change of the state made by an Execute call during which no
\* other caller has taken a step is one of the four transitions.
C20_OnlyFourTransitionsUndisturbed ==
    [][\A c \in DOMAIN pc :
         quiet[c] /\ quiet'[c] /\ call[c] = "Execute" /\ state' # state
           => <<state, state'>> \in Transitions]_vars

\* C20, witness: an undisturbed call that entered on Open has become the trial,
\* failed, and has just taken the state from HalfOpen back to Open.
C20_Witness ==
    \E c \in DOMAIN pc :
        /\ quiet[c] /\ call[c] = "Execute" /\ enteredIn[c] = Open /\ trial[c]
        /\ pc[c] = "storeTime" /\ state = Open

\* A longer run of Execute calls with a live ctx, no Reset() called, on a breaker
\* made with the largest failureThreshold and recoveryTimeout tried.
LongEnter(c) ==
    /\ calls < MaxLongCalls
    /\ calls' = calls + 1
    /\ Admit(c)

InitLong == InitWith(Callers, MaxThreshold, MaxTimeout) /\ RetryUnused

NextLong ==
    \/ \E c \in Callers :
          \/ LongEnter(c)
          \/ LoadLastFailure(c)
          \/ CheckRecovery(c)
          \/ StoreHalfOpen(c)
          \/ CheckHalfOpen(c)
          \/ AcquireTrial(c)
          \/ OperationFails(c)
          \/ OperationSucceeds(c)
          \/ handleFailure(c)
          \/ ResetStoreState(c)
          \/ ResetStoreTime(c)
          \/ Return(c)
    \/ Tick

SpecLong == InitLong /\ [][NextLong]_vars

\* Caller c's handleFailure stores Open on a Closed breaker.
OpensFromClosed(c) ==
    /\ pc[c] = "storeOpen" /\ pc'[c] = "storeTime"
    /\ state = Closed /\ state' = Open

\* Caller c's operation returns without error.
Succeeds(c) == opErr[c] = "none" /\ opErr'[c] = "nil"

\* C21, as claimed: a successful operation sets failureCount to 0, and the breaker
\* leaves Closed for Open only by a call whose failure was at least the
\* failureThreshold-th since the count was last set to 0.
C21_OpensOnlyAfterThreshold ==
    /\ [][\A c \in DOMAIN pc : Succeeds(c) => failureCount' = 0]_vars
    /\ [][\A c \in DOMAIN pc :
            OpensFromClosed(c) => currentFailures[c] >= failureThreshold]_vars

\* C21, amended: the same, for a call during which no other caller takes a step.
C21_OpensOnlyAfterThresholdUndisturbed ==
    /\ [][\A c \in DOMAIN pc : Succeeds(c) => failureCount' = 0]_vars
    /\ [][\A c \in DOMAIN pc :
            OpensFromClosed(c) /\ quiet[c] => currentFailures[c] >= failureThreshold]_vars

\* C21, witness: an undisturbed call has opened a Closed breaker with the second
\* failure in a row, failureThreshold being 2.
C21_Witness ==
    \E c \in DOMAIN pc :
        /\ quiet[c] /\ enteredIn[c] = Closed /\ pc[c] = "storeTime" /\ state = Open
        /\ failureThreshold = 2 /\ currentFailures[c] = 2 /\ failureCount = 2

\* Caller c makes the first store of Reset, line 282, inside a successful Execute
\* or a Reset() of its own.
StoresCount(c) == pc[c] \in {"inOp", "idle"} /\ pc'[c] = "resetState"

\* Caller c makes the second store of Reset, line 283.
StoresClosed(c) == pc[c] = "resetState" /\ pc'[c] = "resetTime"

\* C22, as claimed: a step that moves the state into Closed leaves failureCount 0,
\* and failureCount goes to 0 only in a step that moves the state into Closed.
C22_ZeroedExactlyOnClosing ==
    [][/\ state # Closed /\ state' = Closed => failureCount' = 0
       /\ failureCount # 0 /\ failureCount' = 0 => state # Closed /\ state' = Closed]_vars

\* C22, amended: failureCount goes to 0 only by the first store of Reset, whatever
\* the state is and without changing it; the state moves into Closed only by the
\* second store of Reset, and failureCount is then 0 when no other caller took a
\* step during the call.
C22_ZeroedByReset ==
    [][/\ failureCount # 0 /\ failureCount' = 0 =>
            /\ state' = state
            /\ \E c \in DOMAIN pc : StoresCount(c)
       /\ state # Closed /\ state' = Closed =>
            \E c \in DOMAIN pc : StoresClosed(c) /\ (quiet[c] => failureCount' = 0)]_vars

\* C22, witness: an undisturbed trial has succeeded on a HalfOpen breaker and its
\* Reset has stored failureCount 0 and then Closed.
C22_Witness ==
    \E c \in DOMAIN pc :
        /\ quiet[c] /\ trial[c] /\ enteredIn[c] = HalfOpen /\ opErr[c] = "nil"
        /\ pc[c] = "resetTime" /\ state = Closed /\ failureCount = 0

\* Caller c's Execute is returning after its handleFailure opened the circuit
\* (lines 232-233), no other caller having taken a step during the call.
OpenedUndisturbed(c) == Returning(c) /\ quiet[c] /\ stamped[c] # Unset

Returns(c) == pc[c] = "ret" /\ pc'[c] = "idle"

\* C24: halfOpenLock is held exactly while the one call that won the
\* CompareAndSwap is in flight; that call's return sets it to false whether its
\* operation succeeded or failed; no other step sets it to false; it is false
\* whenever no Execute call is in flight.
C24_GateReleasedOnExit ==
    /\ [](halfOpenLock <=> \E c \in DOMAIN pc : trial[c])
    /\ [](\A c, d \in DOMAIN pc : trial[c] /\ trial[d] => c = d)
    /\ []((\A c \in DOMAIN pc : call[c] # "Execute") => ~halfOpenLock)
    /\ [][\A c \in DOMAIN pc : trial[c] /\ Returns(c) => ~halfOpenLock']_vars
    /\ [][halfOpenLock /\ ~halfOpenLock' =>
            \E c \in DOMAIN pc : trial[c] /\ Returns(c)]_vars

\* C24, witness: a trial whose operation failed is at its return, still holding
\* halfOpenLock, while another call is in flight.
C24_Witness ==
    \E c \in DOMAIN pc :
        /\ Returning(c) /\ trial[c] /\ opErr[c] = "errOperation" /\ halfOpenLock
        /\ \E d \in DOMAIN pc \ {c} : pc[d] # "idle"

\* What one Execute call of the retry holds: its ctx, its locals, its timer and
\* what it returns.
RetryLocals(r) ==
    <<rpc[r], attempt[r], ctxDone[r], callCount[r], waits[r], outcome[r], delay[r],
      jitter[r], totalDelay[r], timerFired[r], ret[r]>>

\* C25: the configuration never changes; a step changes the locals of one call
\* only; and each call, whatever the other calls do, starts at attempt 0, has
\* invoked the callback attempt + 1 times once in its attempt-th iteration, has
\* waited once per earlier iteration, waits on the delay of its own attempt, and
\* gives up at its own maxRetries-th invocation.
C25_AttemptStatePrivate ==
    /\ [][ebr' = ebr]_vars
    /\ [][\A r, q \in Retriers :
            r # q => RetryLocals(r)' = RetryLocals(r) \/ RetryLocals(q)' = RetryLocals(q)]_vars
    /\ [][\A r \in Retriers : rpc[r] = "idle" /\ rpc'[r] = "top" => attempt'[r] = 0]_vars
    /\ [](\A r \in Retriers :
            /\ rpc[r] = "top" => callCount[r] = attempt[r] /\ waits[r] = attempt[r]
            /\ rpc[r] = "callback" => callCount[r] = attempt[r] + 1 /\ waits[r] = attempt[r]
            /\ rpc[r] = "wait" =>
                 /\ callCount[r] = attempt[r] + 1 /\ waits[r] = attempt[r] + 1
                 /\ delay[r] = BaseDelay(attempt[r])
                 /\ totalDelay[r] = delay[r] + jitter[r]
            /\ rpc[r] = "ret" /\ ret[r].err = "callback" =>
                 callCount[r] = ebr.maxRetries /\ ret[r].of = ebr.maxRetries
            /\ rpc[r] = "ret" /\ ret[r].err = "nil" => ret[r].of = attempt[r] + 1)

\* C25, witness: two calls on one instance are in flight at different attempts,
\* one waiting after its second failure, the other in its first callback.
C25_Witness ==
    \E r, q \in Retriers :
        /\ rpc[r] = "wait" /\ attempt[r] = 1 /\ callCount[r] = 2
        /\ rpc[q] = "callback" /\ attempt[q] = 0 /\ callCount[q] = 1

\* ------------------------------------------------- the breaker, run without end

\* Execute is called with a live ctx, any number of times.
LiveEnter(c) == Admit(c) /\ UNCHANGED calls

\* failureCount beyond MaxCount is kept as MaxCount: with failureThreshold no
\* larger than MaxCount the comparison of line 222 comes out the same.
Saturated(n) == IF n > MaxCount THEN MaxCount ELSE n

\* OperationFails, with the count saturated.
LiveOperationFails(c) ==
    /\ pc[c] = "inOp"
    /\ opErr' = [opErr EXCEPT ![c] = "errOperation"]
    /\ failureCount' = Saturated(failureCount + 1)
    /\ currentFailures' = [currentFailures EXCEPT ![c] = Saturated(failureCount + 1)]
    /\ pc' = [pc EXCEPT ![c] = IF ThresholdReached(Saturated(failureCount + 1))
                                 THEN "storeOpen" ELSE "loadState"]
    /\ clean' = FALSE
    /\ Disturb(c)
    /\ UNCHANGED <<retry, config, state, lastFailureTime, halfOpenLock, now, calls, resets,
                   call, loaded, trial, cancelled, elapsedAt, enteredIn, window,
                   stamped, opInv, fbInv, result>>

\* The latest time the clock of the run without end shows.
LiveTime == MaxTimeout + 1

\* A recorded time one unit further in the past, no further than LiveTime ago:
\* with recoveryTimeout below LiveTime the comparison of line 181 comes out the same.
Older(t) == IF t > 0 THEN t - 1 ELSE t

\* The clock advances; once it shows LiveTime every recorded time is moved one
\* unit into the past instead.
TickShift ==
    /\ IF now < LiveTime
         THEN /\ now' = now + 1
              /\ UNCHANGED <<lastFailureTime, loaded, window, stamped>>
         ELSE /\ now' = now
              /\ lastFailureTime' = Older(lastFailureTime)
              /\ loaded' = [c \in DOMAIN loaded |-> Older(loaded[c])]
              /\ window' = [c \in DOMAIN window |-> Older(window[c])]
              /\ stamped' = [c \in DOMAIN stamped |-> Older(stamped[c])]
    /\ UNCHANGED <<retry, config, state, failureCount, halfOpenLock, counters, call, pc,
                   trial, cancelled, elapsedAt, enteredIn, opErr, currentFailures,
                   opInv, fbInv, result, quiet>>

\* A step of caller c's Execute call in flight.
LiveRun(c) ==
    \/ LoadLastFailure(c)
    \/ CheckRecovery(c)
    \/ StoreHalfOpen(c)
    \/ CheckHalfOpen(c)
    \/ AcquireTrial(c)
    \/ LiveOperationFails(c)
    \/ OperationSucceeds(c)
    \/ handleFailure(c)
    \/ ResetStoreState(c)
    \/ ResetStoreTime(c)
    \/ Return(c)

\* Some caller calls Execute.
LiveCall == \E c \in Callers : LiveEnter(c)

\* A breaker made with the largest failureThreshold and recoveryTimeout tried.
InitLive == InitWith(Callers, MaxThreshold, MaxTimeout) /\ RetryUnused

NextLive ==
    \/ LiveCall
    \/ \E c \in Callers : LiveRun(c)
    \/ TickShift

\* Execute keeps being called, by one caller or another; every call in flight
\* goes on to its return; the clock keeps advancing.
SpecLive ==
    /\ InitLive
    /\ [][NextLive]_vars
    /\ WF_vars(LiveCall)
    /\ \A c \in Callers : WF_vars(LiveRun(c))
    /\ WF_vars(TickShift)

\* C26: whatever state the breaker is in, Open included, operation is invoked
\* again later on: at all times there is a later time at which some call is in
\* operation.
C26_NoTerminalState == []<>(\E c \in DOMAIN pc : pc[c] = "inOp")

\* C26, witness: long after the failure that opened the breaker, a call that found
\* it Open and recoveryTimeout elapsed is the trial, in operation.
C26_Witness ==
    \E c \in DOMAIN pc :
        /\ enteredIn[c] = Open /\ trial[c] /\ pc[c] = "inOp" /\ elapsedAt[c] = "gt"
        /\ now = LiveTime /\ lastFailureTime = 0 /\ failureCount = MaxCount

\* ------------------------------------------------ the retry, scheduled fairly

\* A step of caller r's Execute call in flight.
RetryRun(r) ==
    \/ RetryCheckCtx(r)
    \/ RetryCallback(r)
    \/ RetryWaitCancelled(r)
    \/ RetryWaitElapsed(r)
    \/ RetryReturn(r)

\* An instance made with any maxRetries and the largest initialDelay, multiplier
\* and randomInt tried.
InitRetryFair ==
    /\ \E m \in 0..MaxMaxRetries :
         ebr = NewExponentialBackoffRetry(MaxInitialDelay, m, MaxMultiplier, MaxRandomInt)
    /\ RetryIdle
    /\ BreakerUnused

\* Every callback invocation returns, every timer fires in the end, and the
\* goroutine of a call in flight keeps running.
SpecRetryFair ==
    /\ InitRetryFair
    /\ [][NextRetry]_vars
    /\ \A r \in Retriers : WF_vars(RetryRun(r)) /\ WF_vars(RetryTimerFires(r))

\* What Execute may return: the result of an invocation and nil, the zero value
\* and the error of the maxRetries-th invocation, or the zero value and ctx.Err().
RetryOutcomes ==
    {[val |-> "result", err |-> "nil", of |-> k] : k \in 1..ebr.maxRetries}
        \cup {[val |-> "zero", err |-> "callback", of |-> ebr.maxRetries],
              [val |-> "zero", err |-> "ctx", of |-> 0]}

\* C27: every Execute call returns; it never invokes callback more than maxRetries
\* times nor waits more than maxRetries - 1 times; and what it returns is a
\* result with nil, the last invocation's error, or ctx.Err().
C27_ExecuteTerminates ==
    /\ \A r \in Retriers : (rpc[r] = "top") ~> RetryReturning(r)
    /\ [](\A r \in Retriers :
            /\ callCount[r] <= ebr.maxRetries
            /\ waits[r] <= ebr.maxRetries - 1
            /\ RetryReturning(r) => ret[r] \in RetryOutcomes)

\* C27, witness: a call returns the last error after maxRetries = 4 invocations
\* and 3 waits.
C27_Witness ==
    \E r \in Retriers :
        /\ RetryReturning(r) /\ ebr.maxRetries = 4
        /\ callCount[r] = 4 /\ waits[r] = 3 /\ ret[r].err = "callback"

\* ------------------------------------------- claims, circuitBreaker, the rest

\* No Execute or Reset call is in flight.
AtRest == \A c \in DOMAIN pc : pc[c] = "idle"

\* C28, as claimed: with no call in flight, an Open breaker holds the time of a
\* real failure in lastFailureTime, neither unset nor the zero time.
C28_OpenHasFailureTime ==
    AtRest /\ state = Open => lastFailureTime >= 0

\* The call whose step this is: the one caller c is making, or is just beginning.
CallOf(c) == IF pc[c] = "idle" THEN call'[c] ELSE call[c]

\* Caller c's Execute has not got past the ctx check or the recovery check: its ctx
\* was done on entry, or it found less than recoveryTimeout elapsed or no time
\* recorded.
TurnedAway(c) == cancelled'[c] \/ elapsedAt'[c] \in {"unset", "lt", "eq"}

\* C29: state, failureCount, lastFailureTime and halfOpenLock change only in a
\* step of Reset or of an Execute call that got past the ctx check and the
\* recovery check: no step of an Execute up to and including the recovery check,
\* no step of an Execute with a cancelled ctx or rejected by the recovery check,
\* and no advance of the clock changes any of them.
C29_OnlyExecuteAndResetChange ==
    /\ [][shared' # shared =>
            \E c \in DOMAIN pc :
                /\ pc'[c] # pc[c]
                /\ CallOf(c) \in {"Execute", "Reset"}
                /\ CallOf(c) = "Execute" => ~TurnedAway(c)]_vars
    /\ [][\A c \in DOMAIN pc :
            /\ pc'[c] # pc[c] /\ CallOf(c) = "Execute"
            /\ pc[c] \in {"idle", "loadLast", "since"}
            => shared' = shared]_vars
    /\ [][now' # now => shared' = shared]_vars

\* C29, witness: an Execute call rejected by the recovery check is at its return,
\* the breaker Open with its failure time as they were when the call came in.
C29_Witness ==
    \E c \in DOMAIN pc :
        /\ Returning(c) /\ quiet[c] /\ elapsedAt[c] \in {"lt", "eq"}
        /\ enteredIn[c] = Open /\ state = Open /\ lastFailureTime = window[c]
        /\ fbInv[c] = 1 /\ opInv[c] = 0

====
